---- MODULE Spec2Model ----
(***************************************************************************)
(* Model of steps/03_harmonize_data.py: a script that creates one          *)
(* vectorized Python UDF and a list of views in the schema "silver" of the *)
(* database quickstart_<environment>, plus the semantics of the UDF        *)
(* handler and of the three flight queries the views store.               *)
(***************************************************************************)
EXTENDS Naturals, Integers, Sequences, FiniteSets, TLC

VARIABLES
    os_environ,     \* the process environment (a dict): os.environ
    store,          \* the platform: location -> object name -> stored definition
    pc,             \* position of the script: init, udf, views, done, failed
    target,         \* silver_schema: the <<database, schema>> the run addresses
    idx,            \* position of the for loop in pipeline (1-based)
    calls,          \* the create calls issued by the current run, in order
    err,            \* the exception that ended the current run, or "none"
    envReads,       \* evaluations of os.environ['environment'] in this run
    runStart,       \* the store as it was when the current run started
    afterFirst,     \* the store as the first completed run left it
    completed,      \* number of runs that reached the end of the script
    airport_list,   \* content of @bronze.raw/airport_list.json
    df,             \* the batch of rows handed to the UDF handler (column 0)
    udf_out,        \* what the handler returned for the batch
    emissions_tab,  \* estimated_emissions_schedules_sample
    status_tab,     \* flight_status_latest_sample
    home,           \* $1:airport of data/home.json
    qout,           \* per view: the result of querying it, once queried
    divisions,      \* per view: the operand pairs its query divided
    udf_args        \* the batch flights_from_home passed to get_city_for_airport

runVars == <<os_environ, store, pc, target, idx, calls, err, envReads,
             runStart, afterFirst, completed>>
udfVars == <<airport_list, df, udf_out>>
sqlVars == <<emissions_tab, status_tab, home, qout, divisions, udf_args>>
vars == <<runVars, udfVars, sqlVars>>

-----------------------------------------------------------------------------
(* The objects the file defines *)

\* A nullable value is a set with at most one element: Python's None and
\* SQL's NULL are the empty set, a value v is {v}.
Null == {}

Val(cell) == CHOOSE v \in cell : TRUE

\* a relation or function named without database and schema
Unqualified(path) == Len(path) = 1

map_city_to_airport ==
    [kind |-> "function", name |-> "get_city_for_airport",
     columns |-> <<"iata">>,
     sources |-> {<<"bronze", "raw">>},
     functions |-> {}]

flight_emissions ==
    [kind |-> "view", name |-> "flight_emissions",
     columns |-> <<"departure_airport", "arrival_airport",
                   "co2_emissions_kg_per_person">>,
     sources |-> {<<"oag_flight_emissions_data_sample", "public",
                    "estimated_emissions_schedules_sample">>},
     functions |-> {}]

flight_punctuality ==
    [kind |-> "view", name |-> "flight_punctuality",
     columns |-> <<"departure_iata_airport_code", "arrival_iata_airport_code",
                   "punctual_pct">>,
     sources |-> {<<"oag_flight_status_data_sample", "public",
                    "flight_status_latest_sample">>},
     functions |-> {}]

flights_from_home ==
    [kind |-> "view", name |-> "flights_from_home",
     columns |-> <<"departure_airport", "arrival_airport", "arrival_city",
                   "co2_emissions_kg_per_person", "punctual_pct">>,
     sources |-> {<<"flight_emissions">>, <<"flight_punctuality">>,
                  <<"quickstart_common", "public", "quickstart_repo">>,
                  <<"bronze", "json_format">>},
     functions |-> {<<"get_city_for_airport">>}]

weather_forecast ==
    [kind |-> "view", name |-> "weather_forecast",
     columns |-> <<"postal_code", "avg_temperature_air_f",
                   "avg_relative_humidity_pct", "avg_cloud_cover_pct",
                   "precipitation_probability_pct">>,
     sources |-> {<<"global_weather__climate_data_for_bi", "standard_tile",
                    "forecast_day">>},
     functions |-> {}]

major_us_cities ==
    [kind |-> "view", name |-> "major_us_cities",
     columns |-> <<"geo_id", "geo_name", "total_population">>,
     sources |-> {<<"global_government", "cybersyn", "datacommons_timeseries">>,
                  <<"global_government", "cybersyn", "geography_index">>,
                  <<"global_government", "cybersyn", "geography_relationships">>},
     functions |-> {}]

zip_codes_in_city ==
    [kind |-> "view", name |-> "zip_codes_in_city",
     columns |-> <<"city_geo_id", "city_geo_name", "zip_geo_id", "zip_geo_name">>,
     sources |-> {<<"us_addresses__poi", "cybersyn", "geography_relationships">>},
     functions |-> {}]

weather_joined_with_major_cities ==
    [kind |-> "view", name |-> "weather_joined_with_major_cities",
     columns |-> <<"geo_id", "geo_name", "total_population",
                   "avg_temperature_air_f", "avg_relative_humidity_pct",
                   "avg_cloud_cover_pct", "precipitation_probability_pct">>,
     sources |-> {<<"major_us_cities">>, <<"zip_codes_in_city">>,
                  <<"weather_forecast">>},
     functions |-> {}]

\* the View built by the last statement of the file, after the loop
attractions ==
    [kind |-> "view", name |-> "attractions",
     columns |-> <<"geo_id", "geo_name", "aquarium_cnt", "zoo_cnt",
                   "korean_restaurant_cnt">>,
     sources |-> {<<"us_addresses__poi", "cybersyn", "point_of_interest_index">>,
                  <<"us_addresses__poi", "cybersyn",
                    "point_of_interest_addresses_relationships">>,
                  <<"us_addresses__poi", "cybersyn", "us_addresses">>,
                  <<"major_us_cities">>},
     functions |-> {}]

\* a pipeline that creates flights_from_home before the views it reads
pipelineHomeFirst ==
    <<flights_from_home, flight_emissions, flight_punctuality, weather_forecast,
      major_us_cities, zip_codes_in_city, weather_joined_with_major_cities>>

\* a pipeline that lists flight_emissions twice
pipelineDuplicate ==
    <<flight_emissions, flight_punctuality, flights_from_home, weather_forecast,
      major_us_cities, zip_codes_in_city, weather_joined_with_major_cities,
      flight_emissions>>

pipeline ==
    <<flight_emissions, flight_punctuality, flights_from_home, weather_forecast,
      major_us_cities, zip_codes_in_city, weather_joined_with_major_cities>>

\* every View object the file constructs
DefinedViews == {pipeline[i] : i \in 1..Len(pipeline)} \cup {attractions}

Definitions == DefinedViews \cup {map_city_to_airport}

ObjNames == {d.name : d \in Definitions}

DefinitionOf(n) == CHOOSE d \in Definitions : d.name = n

\* the same-schema objects a definition's text names without qualification
UnqualifiedRefs(d) ==
    {p[1] : p \in {q \in d.sources \cup d.functions : Unqualified(q)}}

-----------------------------------------------------------------------------
(* The platform *)

Absent(n) ==
    [kind |-> "none", name |-> n, columns |-> <<>>, sources |-> {},
     functions |-> {}]

\* an object of that name left by something other than this file
Stale(n) ==
    [kind |-> DefinitionOf(n).kind, name |-> n, columns |-> <<"legacy">>,
     sources |-> {}, functions |-> {}]

Exists(st, loc, n) == st[loc][n].kind # "none"

\* the schemas that exist on the platform
Locations ==
    {<<"quickstart_dev", "silver">>, <<"quickstart_dev", "bronze">>,
     <<"quickstart_prod", "silver">>}

\* values of the variable 'environment'; quickstart_qa does not exist
Environments == {"dev", "prod", "qa"}

EmptyStore == [l \in Locations |-> [n \in ObjNames |-> Absent(n)]]

Put(st, loc, d) == [st EXCEPT ![loc][d.name] = d]

\* collection.create(obj, mode): the store after the call and its error
Create(st, loc, d, mode, healthy) ==
    IF loc \notin DOMAIN st
    THEN [store |-> st, err |-> "not_found"]
    ELSE IF ~healthy
    THEN [store |-> st, err |-> "platform_error"]
    ELSE IF ~Exists(st, loc, d.name)
    THEN [store |-> Put(st, loc, d), err |-> "none"]
    ELSE IF mode = "or_replace"
    THEN [store |-> Put(st, loc, d), err |-> "none"]
    ELSE IF mode = "if_not_exists"
    THEN [store |-> st, err |-> "none"]
    ELSE [store |-> st, err |-> "already_exists"]

-----------------------------------------------------------------------------
(* The handler of get_city_for_airport (the body of map_city_to_airport) *)

\* an IATA code is a sequence of characters
LowerLetters == <<"a", "f", "j", "k", "l", "o", "s", "x">>
UpperLetters == <<"A", "F", "J", "K", "L", "O", "S", "X">>

UpperChar(c) ==
    IF \E k \in DOMAIN LowerLetters : LowerLetters[k] = c
    THEN UpperLetters[CHOOSE k \in DOMAIN LowerLetters : LowerLetters[k] = c]
    ELSE c

noUpper(s) == s

\* str.upper()
upper(s) == [i \in DOMAIN s |-> UpperChar(s[i])]

\* Python's zero-based subscript
PyIndex(seq, i) == seq[i + 1]

\* line 46: {airport[3]: airport[1] for airport in airport_list}; the
\* comprehension assigns in list order, so a later entry overwrites
RECURSIVE airports(_)
airports(list) ==
    IF list = <<>> THEN [k \in {} |-> ""]
    ELSE LET n == Len(list)
             d == airports(SubSeq(list, 1, n - 1))
             key == PyIndex(list[n], 3)
         IN  [k \in DOMAIN d \cup {key} |->
                 IF k = key THEN PyIndex(list[n], 1) ELSE d[k]]

\* dict.get(key): the value, or None
DictGet(d, key) == IF key \in DOMAIN d THEN {d[key]} ELSE Null

NotCalled == [state |-> "not_called", values |-> <<>>]

\* lines 42-47: df[0].apply(lambda iata: airports.get(iata.upper()));
\* None has no method upper, so a null row raises AttributeError
main(batch, list) ==
    IF \E i \in DOMAIN batch : batch[i] = Null
    THEN [state |-> "raised", values |-> <<>>]
    ELSE [state |-> "returned",
          values |-> [i \in DOMAIN batch |->
                        DictGet(airports(list), upper(Val(batch[i])))]]

JFK == <<"J", "F", "K">>
LAX == <<"L", "A", "X">>

\* entries in the layout of the pyairports list: name, city, country, IATA
SampleAirports ==
    {<<"John F Kennedy Intl", "New York", "United States", JFK>>,
     <<"Downtown Heliport", "Queens", "United States", JFK>>,
     <<"Los Angeles Intl", "Los Angeles", "United States", LAX>>,
     <<"Gardermoen", "Oslo", "Norway", <<"o", "s", "l">>>>}

SampleIatas ==
    {JFK, <<"j", "f", "k">>, <<"J", "f", "k">>, LAX, <<"l", "a", "x">>,
     <<"O", "S", "L">>, <<"o", "s", "l">>}

\* bound: entries of airport_list.json
MaxAirports == 2

\* bound: rows of one batch
MaxBatch == 2

SeqsUpTo(T, n) == UNION {[1..k -> T] : k \in 0..n}

-----------------------------------------------------------------------------
(* The queries of flight_emissions, flight_punctuality, flights_from_home *)

\* SQL's three-valued logic: "T", "F", "U" (unknown)
SqlAnd(x, y) ==
    IF x = "F" \/ y = "F" THEN "F"
    ELSE IF x = "U" \/ y = "U" THEN "U" ELSE "T"

SqlEq(a, b) == IF a = Null \/ b = Null THEN "U" ELSE IF a = b THEN "T" ELSE "F"

SqlNe(a, b) == IF a = Null \/ b = Null THEN "U" ELSE IF a # b THEN "T" ELSE "F"

SqlIsNotNull(a) == IF a = Null THEN "F" ELSE "T"

\* the quotient of two integers is a fixed-point number of six decimals
Scale6 == 1000000

\* n / d in units of 10^-6, rounded half up (n >= 0, d > 0)
Quot6(n, d) == (2 * n * Scale6 + d) \div (2 * d)

\* avg: the sum over the count, rounded half up in the same unit
Mean(sum, n) == (2 * sum + n) \div (2 * n)

RECURSIVE SumOf(_, _)
SumOf(f, S) ==
    IF S = {} THEN 0
    ELSE LET x == CHOOSE y \in S : TRUE IN f[x] + SumOf(f, S \ {x})

RECURSIVE SetToSeq(_)
SetToSeq(S) ==
    IF S = {} THEN <<>>
    ELSE LET x == CHOOSE y \in S : TRUE IN <<x>> \o SetToSeq(S \ {x})

emissionsWhereNoSeats(r) == SqlIsNotNull(r.estimated_co2_total_tonnes)

\* line 74: where seats != 0 and estimated_co2_total_tonnes is not null
EmissionsWhere(r) ==
    SqlAnd(SqlNe(r.seats, {0}), SqlIsNotNull(r.estimated_co2_total_tonnes))

NotRun == [state |-> "not_run", rows |-> {}]

\* lines 69-75: the query of flight_emissions over the sample table
FlightEmissionsQuery(tab) ==
    LET kept == {i \in DOMAIN tab : EmissionsWhere(tab[i]) = "T"}
        divided == {[num |-> tab[i].estimated_co2_total_tonnes,
                     den |-> tab[i].seats] : i \in kept}
        keys == {<<tab[i].departure_airport, tab[i].arrival_airport>> : i \in kept}
        members(k) == {i \in kept : /\ tab[i].departure_airport = k[1]
                                    /\ tab[i].arrival_airport = k[2]}
        \* rows whose quotient is not null (avg skips nulls)
        valued(k) == {i \in members(k) : tab[i].seats # Null}
        quot == [i \in kept |->
                    IF tab[i].seats = Null \/ tab[i].seats = {0} THEN 0
                    ELSE Quot6(Val(tab[i].estimated_co2_total_tonnes),
                               Val(tab[i].seats))]
        avg(k) == IF valued(k) = {} THEN Null
                  ELSE {Mean(SumOf(quot, valued(k)), Cardinality(valued(k))) * 1000}
    IN  IF \E i \in kept : tab[i].seats = {0}
        THEN [result |-> [state |-> "error", rows |-> {}], divided |-> divided]
        ELSE [result |->
                [state |-> "ok",
                 rows |-> {[departure_airport |-> k[1], arrival_airport |-> k[2],
                            co2_emissions_kg_per_person |-> avg(k)] : k \in keys}],
              divided |-> divided]

\* line 95: where arrival_actual_ingate_timeliness is not null
PunctualityWhere(r) == SqlIsNotNull(r.arrival_actual_ingate_timeliness)

\* line 92: case when arrival_actual_ingate_timeliness IN ('OnTime', 'Early')
Punctual(r) == r.arrival_actual_ingate_timeliness \in {{"OnTime"}, {"Early"}}

\* lines 88-96: the query of flight_punctuality over the sample table
FlightPunctualityQuery(tab) ==
    LET kept == {i \in DOMAIN tab : PunctualityWhere(tab[i]) = "T"}
        keys == {<<tab[i].departure_iata_airport_code,
                   tab[i].arrival_iata_airport_code>> : i \in kept}
        members(k) == {i \in kept : /\ tab[i].departure_iata_airport_code = k[1]
                                    /\ tab[i].arrival_iata_airport_code = k[2]}
        punctual(k) == Cardinality({i \in members(k) : Punctual(tab[i])})
        total(k) == Cardinality(members(k))
        divided == {[num |-> {punctual(k)}, den |-> {total(k)}] : k \in keys}
    IN  IF \E k \in keys : total(k) = 0
        THEN [result |-> [state |-> "error", rows |-> {}], divided |-> divided]
        ELSE [result |->
                [state |-> "ok",
                 rows |-> {[departure_iata_airport_code |-> k[1],
                            arrival_iata_airport_code |-> k[2],
                            punctual_pct |-> {Quot6(punctual(k), total(k)) * 100}] :
                           k \in keys}],
              divided |-> divided]

joinOnNullSafe(e, p) ==
    IF /\ e.departure_airport = p.departure_iata_airport_code
       /\ e.arrival_airport = p.arrival_iata_airport_code
    THEN "T" ELSE "F"

\* lines 119-121: join flight_punctuality on departure_airport =
\* departure_iata_airport_code and arrival_airport = arrival_iata_airport_code
JoinOn(e, p) ==
    SqlAnd(SqlEq(e.departure_airport, p.departure_iata_airport_code),
           SqlEq(e.arrival_airport, p.arrival_iata_airport_code))

\* lines 112-125: the query of flights_from_home; hm is $1:airport of
\* home.json, list the airport list the function reads
FlightsFromHomeQuery(etab, stab, hm, list) ==
    LET e == FlightEmissionsQuery(etab).result
        p == FlightPunctualityQuery(stab).result
        joined == {pair \in e.rows \X p.rows :
                     /\ JoinOn(pair[1], pair[2]) = "T"
                     /\ SqlEq(pair[1].departure_airport, hm) = "T"}
        order == SetToSeq(joined)
        batch == [i \in DOMAIN order |-> order[i][1].arrival_airport]
        city == main(batch, list)
    IN  IF e.state # "ok" \/ p.state # "ok"
        THEN [result |-> [state |-> "error", rows |-> {}], batch |-> <<>>]
        ELSE IF city.state # "returned"
        THEN [result |-> [state |-> "error", rows |-> {}], batch |-> batch]
        ELSE [result |->
                [state |-> "ok",
                 rows |-> {[departure_airport |-> order[i][1].departure_airport,
                            arrival_airport |-> order[i][1].arrival_airport,
                            arrival_city |-> city.values[i],
                            co2_emissions_kg_per_person |->
                                order[i][1].co2_emissions_kg_per_person,
                            punctual_pct |-> order[i][2].punctual_pct] :
                           i \in DOMAIN order}],
              batch |-> batch]

QueriedViews == {"flight_emissions", "flight_punctuality", "flights_from_home"}

\* bound: rows in the two source tables together
MaxRows == 3

-----------------------------------------------------------------------------
(* The script *)

\* bound: objects present on the platform before the first run
MaxPreexisting == 1

\* bound: runs of the script that reach its end
MaxRuns == 2

errorIfExists == "error_if_exists"

\* mode=CreateMode.or_replace, the argument of both create calls
CreateModeArg == "or_replace"

hardCodedDatabase(e) == "quickstart_dev"

\* f"quickstart_{os.environ['environment']}"
TargetDatabase(e) == "quickstart_" \o e

\* .schemas["silver"]
TargetSchema == "silver"

NoTarget == <<"", "">>

swallowError(code, next) == next

\* no try/except: an exception of a create call ends the script
AfterCreate(code, next) == IF code = "none" THEN next ELSE "failed"

Call(loc, d, mode, code) ==
    [db |-> loc[1], schema |-> loc[2], kind |-> d.kind, name |-> d.name,
     mode |-> mode, ok |-> (code = "none")]

Slots == Locations \X ObjNames

RECURSIVE SubsetsUpTo(_, _)
SubsetsUpTo(S, k) ==
    IF k = 0 THEN {{}}
    ELSE LET P == SubsetsUpTo(S, k - 1)
         IN  P \cup {T \cup {x} : T \in P, x \in S}

\* the platform before the first run: at most MaxPreexisting objects, each
\* either a legacy object or a definition of this file left by an earlier run
InitialStores ==
    {[l \in Locations |-> [n \in ObjNames |->
        IF <<l, n>> \notin DOMAIN f THEN Absent(n)
        ELSE IF f[<<l, n>>] = "stale" THEN Stale(n) ELSE DefinitionOf(n)]] :
     f \in UNION {[S -> {"stale", "current"}] :
                  S \in SubsetsUpTo(Slots, MaxPreexisting)}}

InitialEnvirons ==
    {[k \in {} |-> ""]} \cup
    {[k \in {"environment"} |-> e] : e \in Environments}

UdfIdle == airport_list = <<>> /\ df = <<>> /\ udf_out = NotCalled

SqlIdle ==
    /\ emissions_tab = <<>>
    /\ status_tab = <<>>
    /\ home = Null
    /\ qout = [v \in QueriedViews |-> NotRun]
    /\ divisions = [v \in QueriedViews |-> {}]
    /\ udf_args = <<>>

RunIdle ==
    /\ os_environ = [k \in {} |-> ""]
    /\ store = EmptyStore
    /\ pc = "idle"
    /\ target = NoTarget
    /\ idx = 1
    /\ calls = <<>>
    /\ err = "none"
    /\ envReads = 0
    /\ runStart = EmptyStore
    /\ afterFirst = EmptyStore
    /\ completed = 0

Init ==
    /\ os_environ \in InitialEnvirons
    /\ store \in InitialStores
    /\ pc = "init"
    /\ target = NoTarget
    /\ idx = 1
    /\ calls = <<>>
    /\ err = "none"
    /\ envReads = 0
    /\ runStart = store
    /\ afterFirst = store
    /\ completed = 0
    /\ UdfIdle
    /\ SqlIdle

\* lines 239-242: open the session and resolve silver_schema; the subscript
\* os.environ['environment'] raises KeyError when the variable is unset
Start ==
    /\ pc = "init"
    /\ envReads' = envReads + 1
    /\ IF "environment" \in DOMAIN os_environ
       THEN /\ target' = <<TargetDatabase(os_environ["environment"]), TargetSchema>>
            /\ pc' = "udf"
            /\ err' = err
       ELSE /\ target' = target
            /\ pc' = "failed"
            /\ err' = "KeyError"
    /\ UNCHANGED <<os_environ, store, idx, calls, runStart, afterFirst, completed>>

\* lines 243-245: silver_schema.user_defined_functions.create(...)
CreateUdf ==
    /\ pc = "udf"
    /\ \E healthy \in BOOLEAN :
         LET r == Create(store, target, map_city_to_airport, CreateModeArg, healthy)
         IN  /\ store' = r.store
             /\ calls' = Append(calls, Call(target, map_city_to_airport,
                                            CreateModeArg, r.err))
             /\ pc' = AfterCreate(r.err, "views")
             /\ err' = IF AfterCreate(r.err, "views") = "failed" THEN r.err ELSE err
    /\ UNCHANGED <<os_environ, target, idx, envReads, runStart, afterFirst, completed>>

\* lines 246-247: one iteration of the loop over pipeline
CreateView ==
    /\ pc = "views"
    /\ idx <= Len(pipeline)
    /\ \E healthy \in BOOLEAN :
         LET r == Create(store, target, pipeline[idx], CreateModeArg, healthy)
         IN  /\ store' = r.store
             /\ calls' = Append(calls, Call(target, pipeline[idx],
                                            CreateModeArg, r.err))
             /\ pc' = AfterCreate(r.err, "views")
             /\ err' = IF AfterCreate(r.err, "views") = "failed" THEN r.err ELSE err
    /\ idx' = idx + 1
    /\ UNCHANGED <<os_environ, target, envReads, runStart, afterFirst, completed>>

\* lines 249-276: after the loop the file builds the View attractions as an
\* expression statement; the object is dropped and the script ends
BuildAttractions ==
    /\ pc = "views"
    /\ idx > Len(pipeline)
    /\ pc' = "done"
    /\ completed' = completed + 1
    /\ afterFirst' = IF completed = 0 THEN store ELSE afterFirst
    /\ UNCHANGED <<os_environ, store, target, idx, calls, err, envReads, runStart>>

\* the script is started again, with the same environment
Rerun ==
    /\ pc \in {"done", "failed"}
    /\ completed < MaxRuns
    /\ pc' = "init"
    /\ target' = NoTarget
    /\ idx' = 1
    /\ calls' = <<>>
    /\ err' = "none"
    /\ envReads' = 0
    /\ runStart' = store
    /\ UNCHANGED <<os_environ, store, afterFirst, completed>>

Next ==
    \/ Start /\ UNCHANGED <<udfVars, sqlVars>>
    \/ CreateUdf /\ UNCHANGED <<udfVars, sqlVars>>
    \/ CreateView /\ UNCHANGED <<udfVars, sqlVars>>
    \/ BuildAttractions /\ UNCHANGED <<udfVars, sqlVars>>
    \/ Rerun /\ UNCHANGED <<udfVars, sqlVars>>

Spec == Init /\ [][Next]_vars

-----------------------------------------------------------------------------
(* The function called on a batch *)

InitUdf ==
    /\ airport_list \in SeqsUpTo(SampleAirports, MaxAirports)
    /\ df \in SeqsUpTo({Null} \cup {{c} : c \in SampleIatas}, MaxBatch)
    /\ udf_out = NotCalled
    /\ RunIdle
    /\ SqlIdle

\* the runtime calls main on one batch
InvokeUdf ==
    /\ udf_out.state = "not_called"
    /\ udf_out' = main(df, airport_list)
    /\ UNCHANGED <<airport_list, df, runVars, sqlVars>>

NextUdf == InvokeUdf

SpecUdf == InitUdf /\ [][NextUdf]_vars

-----------------------------------------------------------------------------
(* The views queried over sample tables *)

EmissionRow(dep, arr, co2, seats) ==
    [departure_airport |-> dep, arrival_airport |-> arr,
     estimated_co2_total_tonnes |-> co2, seats |-> seats]

StatusRow(dep, arr, tim) ==
    [departure_iata_airport_code |-> dep, arrival_iata_airport_code |-> arr,
     arrival_actual_ingate_timeliness |-> tim]

\* the airport list the function reads while the views are queried
QueryAirports ==
    <<<<"John F Kennedy Intl", "New York", "United States", JFK>>,
      <<"Los Angeles Intl", "Los Angeles", "United States", LAX>>>>

QueryFlightEmissions ==
    /\ qout["flight_emissions"].state = "not_run"
    /\ LET q == FlightEmissionsQuery(emissions_tab)
       IN  /\ qout' = [qout EXCEPT !["flight_emissions"] = q.result]
           /\ divisions' = [divisions EXCEPT !["flight_emissions"] = q.divided]
    /\ UNCHANGED <<emissions_tab, status_tab, home, udf_args, airport_list, df,
                   udf_out, runVars>>

QueryFlightPunctuality ==
    /\ qout["flight_punctuality"].state = "not_run"
    /\ LET q == FlightPunctualityQuery(status_tab)
       IN  /\ qout' = [qout EXCEPT !["flight_punctuality"] = q.result]
           /\ divisions' = [divisions EXCEPT !["flight_punctuality"] = q.divided]
    /\ UNCHANGED <<emissions_tab, status_tab, home, udf_args, airport_list, df,
                   udf_out, runVars>>

QueryFlightsFromHome ==
    /\ qout["flights_from_home"].state = "not_run"
    /\ LET q == FlightsFromHomeQuery(emissions_tab, status_tab, home, airport_list)
       IN  /\ qout' = [qout EXCEPT !["flights_from_home"] = q.result]
           /\ udf_args' = q.batch
    /\ UNCHANGED <<emissions_tab, status_tab, home, divisions, airport_list, df,
                   udf_out, runVars>>

SqlStart ==
    /\ qout = [v \in QueriedViews |-> NotRun]
    /\ divisions = [v \in QueriedViews |-> {}]
    /\ udf_args = <<>>
    /\ airport_list = QueryAirports
    /\ df = <<>>
    /\ udf_out = NotCalled
    /\ RunIdle

\* source rows for the aggregates: two routes, null and zero operands
ViewsEmissionRows ==
    {EmissionRow({JFK}, arr, co2, seats) :
        arr \in {{LAX}, Null}, co2 \in {Null, {3}}, seats \in {Null, {0}, {4}}}

ViewsStatusRows ==
    {StatusRow({JFK}, arr, tim) :
        arr \in {{LAX}, Null},
        tim \in {Null, {"OnTime"}, {"Early"}, {"Late"}}}

InitViews ==
    /\ emissions_tab \in SeqsUpTo(ViewsEmissionRows, MaxRows)
    /\ status_tab \in SeqsUpTo(ViewsStatusRows, MaxRows - Len(emissions_tab))
    /\ home = {JFK}
    /\ SqlStart

NextViews == QueryFlightEmissions \/ QueryFlightPunctuality

SpecViews == InitViews /\ [][NextViews]_vars

\* source rows for the join: null and non-null airports on both sides
JoinEmissionRows ==
    {EmissionRow(dep, arr, {3}, {4}) : dep \in {{JFK}, Null}, arr \in {{LAX}, Null}}

JoinStatusRows ==
    {StatusRow(dep, arr, tim) :
        dep \in {{JFK}, Null}, arr \in {{LAX}, Null}, tim \in {Null, {"OnTime"}}}

InitJoin ==
    /\ emissions_tab \in SeqsUpTo(JoinEmissionRows, MaxRows)
    /\ status_tab \in SeqsUpTo(JoinStatusRows, MaxRows - Len(emissions_tab))
    /\ home \in {{JFK}, Null}
    /\ SqlStart

NextJoin == QueryFlightsFromHome

SpecJoin == InitJoin /\ [][NextJoin]_vars

-----------------------------------------------------------------------------
(* Properties of a run of the script (Spec) *)

EnvSet == "environment" \in DOMAIN os_environ

\* C1: replaying the script is idempotent: once a run has completed, every
\* later completed run (same environment) leaves the platform exactly as the
\* first one left it (same objects, names, column lists and text); every
\* create call uses mode or_replace and no run fails because an object
\* already exists.
C1_ReplayIsIdempotent ==
    /\ err # "already_exists"
    /\ \A i \in DOMAIN calls : calls[i].mode = "or_replace"
    /\ (pc = "done" /\ completed >= 2) => store = afterFirst

C1_SecondRunCompleted ==
    /\ pc = "done"
    /\ completed = 2
    /\ \A i \in DOMAIN calls : Exists(runStart, target, calls[i].name)

\* C2: after a complete run the target schema holds one view for every View
\* object the file defines, the view attractions (points of interest)
\* included.
C2_EveryDefinedViewCreated ==
    pc = "done" => \A v \in DefinedViews : store[target][v.name] = v

\* C3: every create call of a run targets schema silver of database
\* quickstart_<environment>, the variable being read once per run; no object
\* of any other database or schema is created or replaced; when the variable
\* is unset the run stops before any create call.
C3_OnlyTargetSchemaTouched ==
    /\ envReads <= 1
    /\ \A i \in DOMAIN calls :
         /\ EnvSet
         /\ calls[i].db = "quickstart_" \o os_environ["environment"]
         /\ calls[i].schema = "silver"
    /\ \A l \in Locations :
         (IF EnvSet
          THEN l # <<"quickstart_" \o os_environ["environment"], "silver">>
          ELSE TRUE) => store[l] = runStart[l]
    /\ ~EnvSet => (calls = <<>> /\ pc \in {"init", "failed"})

C3_OtherSchemasPopulated ==
    /\ pc = "done"
    /\ os_environ["environment"] = "prod"
    /\ \E n \in ObjNames : Exists(store, <<"quickstart_dev", "silver">>, n)

\* C4: the script handles no error: a failed create call is the last call of
\* its run, the run ends there with the platform's error, the objects of the
\* calls before it are created/replaced and the objects of the calls that
\* were not reached keep the state they had before the run.
C4_FailureEndsRun ==
    \A k \in DOMAIN calls :
        ~calls[k].ok =>
            /\ k = Len(calls)
            /\ pc = "failed"
            /\ err \in {"platform_error", "not_found"}
            /\ \A i \in 1..(k - 1) :
                 /\ calls[i].ok
                 /\ store[target][calls[i].name] = DefinitionOf(calls[i].name)
            /\ target \in DOMAIN store =>
                 \A n \in ObjNames \ {calls[i].name : i \in 1..k} :
                     store[target][n] = runStart[target][n]

C4_FailedMidway ==
    /\ pc = "failed"
    /\ Len(calls) = 4
    /\ Exists(runStart, target, "flight_emissions")
    /\ store[target]["flight_emissions"] # runStart[target]["flight_emissions"]
    /\ ~Exists(store, target, "weather_forecast")

\* C5: the create calls are issued in one fixed order, the function
\* get_city_for_airport first and then the seven views in list order; a
\* complete run issues exactly eight calls, one per object, and no two calls
\* of a run name the same object.
C5_FixedCallOrder ==
    LET expected == <<"get_city_for_airport", "flight_emissions",
                      "flight_punctuality", "flights_from_home",
                      "weather_forecast", "major_us_cities",
                      "zip_codes_in_city", "weather_joined_with_major_cities">>
    IN  /\ Len(calls) <= 8
        /\ \A i \in DOMAIN calls :
             /\ calls[i].name = expected[i]
             /\ calls[i].kind = IF i = 1 THEN "function" ELSE "view"
             /\ i < Len(calls) => calls[i].ok
        /\ \A i, j \in DOMAIN calls : i # j => calls[i].name # calls[j].name
        /\ \A i, j \in DOMAIN pipeline : i # j => pipeline[i].name # pipeline[j].name
        /\ pc = "done" => Len(calls) = 8

C5_AllEightIssued ==
    /\ pc = "done"
    /\ completed = 1
    /\ calls[8].name = "weather_joined_with_major_cities"

\* C6: when a create call is issued, every same-schema object the
\* definition refers to by unqualified name has been created by an earlier
\* call of the same run: flights_from_home after flight_emissions,
\* flight_punctuality and get_city_for_airport; weather_joined_with_major_cities
\* after major_us_cities, zip_codes_in_city and weather_forecast.
C6_DependenciesCreatedFirst ==
    \A i \in DOMAIN calls :
        LET before == {calls[j].name : j \in {m \in 1..(i - 1) : calls[m].ok}}
        IN  /\ UnqualifiedRefs(DefinitionOf(calls[i].name)) \subseteq before
            /\ calls[i].name = "flights_from_home" =>
                 {"flight_emissions", "flight_punctuality",
                  "get_city_for_airport"} \subseteq before
            /\ calls[i].name = "weather_joined_with_major_cities" =>
                 {"major_us_cities", "zip_codes_in_city",
                  "weather_forecast"} \subseteq before

C6_CompletedFromEmptySchema ==
    /\ pc = "done"
    /\ \A n \in ObjNames : ~Exists(runStart, target, n)
    /\ Exists(store, target, "flights_from_home")
    /\ Exists(store, target, "weather_joined_with_major_cities")

-----------------------------------------------------------------------------
(* Properties of the function (SpecUdf) *)

\* two characters that are the same letter in either case
SameLetter(a, b) ==
    \/ a = b
    \/ \E k \in DOMAIN LowerLetters :
         {a, b} = {LowerLetters[k], UpperLetters[k]}

SameIgnoringCase(s, t) ==
    /\ Len(s) = Len(t)
    /\ \A i \in DOMAIN s : SameLetter(s[i], t[i])

AllUpper(s) == \A i \in DOMAIN s : \A k \in DOMAIN LowerLetters : s[i] # LowerLetters[k]

\* C7: for a batch of non-null IATA strings the function returns one value
\* per row, in row order: the city (element [1]) of the last list entry whose
\* IATA code (element [3]) equals the upper-cased input, or null when no
\* entry has that code; inputs that differ only in letter case give the same
\* value.
C7_CaseInsensitiveLookup ==
    udf_out.state # "not_called" =>
        IF \E i \in DOMAIN df : df[i] = Null
        THEN udf_out.state = "raised"
        ELSE /\ udf_out.state = "returned"
             /\ Len(udf_out.values) = Len(df)
             /\ \A i \in DOMAIN df :
                  LET hits == {j \in DOMAIN airport_list :
                                 /\ AllUpper(airport_list[j][4])
                                 /\ SameIgnoringCase(airport_list[j][4], Val(df[i]))}
                  IN  udf_out.values[i] =
                        IF hits = {} THEN Null
                        ELSE {airport_list[CHOOSE j \in hits :
                                             \A m \in hits : m <= j][2]}
             /\ \A i, j \in DOMAIN df :
                  SameIgnoringCase(Val(df[i]), Val(df[j])) =>
                      udf_out.values[i] = udf_out.values[j]

C7_MixedCaseBatchResolved ==
    /\ udf_out.state = "returned"
    /\ Len(df) = 2
    /\ df[1] = {<<"j", "f", "k">>}
    /\ df[2] = {<<"O", "S", "L">>}
    /\ Len(airport_list) = 2
    /\ airport_list[1][4] = JFK
    /\ airport_list[2][4] = JFK
    /\ airport_list[1][2] # airport_list[2][2]
    /\ udf_out.values[1] = {airport_list[2][2]}
    /\ udf_out.values[2] = Null

-----------------------------------------------------------------------------
(* Properties of the queries (SpecJoin, SpecViews) *)

\* C8: flights_from_home never passes a null arrival_airport to
\* get_city_for_airport: its rows come from the inner join on
\* arrival_airport = arrival_iata_airport_code, which no null satisfies, so
\* the handler's iata.upper() is not reached with null and the query does
\* not fail.
C8_FunctionNeverGetsNull ==
    qout["flights_from_home"].state # "not_run" =>
        /\ qout["flights_from_home"].state = "ok"
        /\ \A i \in DOMAIN udf_args : udf_args[i] # Null
        /\ \A r \in qout["flights_from_home"].rows : r.arrival_airport # Null

C8_NullArrivalLeftOut ==
    /\ qout["flights_from_home"].state = "ok"
    /\ udf_args # <<>>
    /\ home # Null
    /\ \E i \in DOMAIN emissions_tab :
         /\ emissions_tab[i].arrival_airport = Null
         /\ emissions_tab[i].departure_airport = home

\* C9: no view query divides by zero: in flight_emissions every row that is
\* divided has a non-null emission value and seats that is neither null nor
\* 0, and these are exactly the rows the filter keeps; in flight_punctuality
\* the divisor COUNT(*) of every group is at least 1, the numerator counts
\* the rows whose timeliness is OnTime or Early, and punctual_pct lies
\* between 0 and 100.
C9_NoDivisionByZero ==
    /\ qout["flight_emissions"].state # "not_run" =>
         /\ qout["flight_emissions"].state = "ok"
         /\ \A x \in divisions["flight_emissions"] :
              x.den # {0} /\ x.den # Null /\ x.num # Null
         /\ divisions["flight_emissions"] =
              {[num |-> emissions_tab[i].estimated_co2_total_tonnes,
                den |-> emissions_tab[i].seats] :
               i \in {j \in DOMAIN emissions_tab :
                        /\ emissions_tab[j].seats \notin {Null, {0}}
                        /\ emissions_tab[j].estimated_co2_total_tonnes # Null}}
    /\ qout["flight_punctuality"].state # "not_run" =>
         /\ qout["flight_punctuality"].state = "ok"
         /\ \A x \in divisions["flight_punctuality"] :
              Val(x.den) >= 1 /\ Val(x.num) <= Val(x.den)
         /\ \A r \in qout["flight_punctuality"].rows :
              LET grp == {i \in DOMAIN status_tab :
                            /\ status_tab[i].arrival_actual_ingate_timeliness # Null
                            /\ status_tab[i].departure_iata_airport_code =
                                   r.departure_iata_airport_code
                            /\ status_tab[i].arrival_iata_airport_code =
                                   r.arrival_iata_airport_code}
                  hit == {i \in grp :
                            status_tab[i].arrival_actual_ingate_timeliness \in
                                {{"OnTime"}, {"Early"}}}
              IN  /\ [num |-> {Cardinality(hit)}, den |-> {Cardinality(grp)}] \in
                        divisions["flight_punctuality"]
                  /\ Val(r.punctual_pct) >= 0
                  /\ Val(r.punctual_pct) <= 100 * Scale6
                  /\ (hit = {}) <=> (Val(r.punctual_pct) = 0)
                  /\ (hit = grp) <=> (Val(r.punctual_pct) = 100 * Scale6)

C9_ZeroSeatsFilteredAndGroupsDivided ==
    /\ qout["flight_emissions"].state = "ok"
    /\ qout["flight_punctuality"].state = "ok"
    /\ \E i \in DOMAIN emissions_tab :
         /\ emissions_tab[i].seats = {0}
         /\ emissions_tab[i].estimated_co2_total_tonnes # Null
    /\ divisions["flight_emissions"] # {}
    /\ qout["flight_punctuality"].rows # {}

====
